---- MODULE Spec2Model ----
(***************************************************************************)
(* Model of cluster/consul/consul_provider.go: the consul cluster provider *)
(* (Provider) with its foreground operations (RegisterMember,              *)
(* DeregisterMember, Shutdown, UpdateMemberStatusValue,                    *)
(* MonitorMemberStatusChanges), the TTL goroutine started by UpdateTTL,    *)
(* the watch goroutine started by MonitorMemberStatusChanges, and the      *)
(* consul agent the provider talks to.                                     *)
(***************************************************************************)
EXTENDS Integers, Sequences, FiniteSets, TLC

(***************************************************************************)
(* Bounds of the model.                                                    *)
(***************************************************************************)
\* The consul index never grows beyond MaxIndex: at that index the agent
\* refuses every write that would change its catalog (the call errors).
MaxIndex == 4
\* The same cap for the behaviours checked under the scheduling of FairSpec.
MaxLiveIndex == 3

(***************************************************************************)
(* Values.                                                                 *)
(***************************************************************************)
Nil == "nil"
NoEntry == [ID |-> <<>>]
NoError == "nil"
DirectoryError == "directory error"
ProviderShuttingDownError == "consul cluster provider is shutting down"

ClusterName == "mycluster"
Address == "127.0.0.1"
Port == 8000
PeerAddress == "127.0.0.2"

HealthPassing == "passing"
HealthWarning == "warning"
HealthCritical == "critical"

\* the kinds and the status values the callers pass
KindSets == { <<"A", "B">>, <<"A">> }
StatusValues == { Nil, "ready" }

\* fmt.Sprintf("%v@%v:%v", clusterName, address, port)
ProviderId(clusterName, address, port) == <<clusterName, "@", address, ":", port>>
\* fmt.Sprintf("%v/%v:%v", p.clusterName, v.Service.Address, v.Service.Port)
MemberKey(clusterName, address, port) == <<clusterName, "/", address, ":", port>>

\* MemberStatusValueSerializer: nil is the empty string, a value its text
Serialize(v) == IF v = Nil THEN <<>> ELSE <<"json", v>>
Deserialize(s) == IF Len(s) = 0 THEN Nil ELSE s[2]

(***************************************************************************)
(* The consul agent.  Its catalog holds this provider's service entry and  *)
(* one peer's; dir.self and dir.peer are NoEntry when absent.              *)
(***************************************************************************)
PeerId == ProviderId(ClusterName, PeerAddress, Port)
PeerEntryWith(checks) ==
    [ID |-> PeerId, Name |-> ClusterName, Address |-> PeerAddress, Port |-> Port,
     Tags |-> <<"A">>, StatusValue |-> Serialize("ready"), Checks |-> checks]
PeerChecks == { <<>>, <<HealthPassing, HealthWarning>> }

\* Agent().ServiceRegister(s): the entry is overwritten; a new entry's TTL
\* check starts critical, an existing entry keeps its check status.
ServiceRegister(d, s) ==
    [d EXCEPT !.self =
        [ID |-> s.ID, Name |-> s.Name, Address |-> s.Address, Port |-> s.Port,
         Tags |-> s.Tags, StatusValue |-> s.StatusValue,
         Checks |-> IF d.self = NoEntry THEN <<HealthCritical>> ELSE d.self.Checks]]

\* Agent().ServiceDeregister(id): removing an absent entry is not an error
ServiceDeregister(d, id) ==
    IF d.self # NoEntry /\ d.self.ID = id THEN [d EXCEPT !.self = NoEntry] ELSE d

\* Agent().UpdateTTL("service:"+id, "", passing) needs the check to exist
HasCheck(d, id) == d.self # NoEntry /\ d.self.ID = id
AgentUpdateTTL(d, id) ==
    IF HasCheck(d, id) THEN [d EXCEPT !.self.Checks = <<HealthPassing>>] ELSE d

\* Agent().Services(): the ids of the services registered at the local agent
AgentServices(d) == IF d.self = NoEntry THEN {} ELSE { d.self.ID }

\* Health().Service(name, "", false, q): every entry of that name, passing
\* or not, in catalog order
HealthService(d, name) ==
    (IF d.self # NoEntry /\ d.self.Name = name THEN <<d.self>> ELSE <<>>)
    \o (IF d.peer # NoEntry /\ d.peer.Name = name THEN <<d.peer>> ELSE <<>>)

VARIABLES
    \* Provider fields
    deregistered, shutdown, id, knownKinds, index, statusValue, clusterError,
    updateTTLWaitGroup,
    \* p.shutdown as the goroutines read it: the write in Shutdown and the
    \* reads at the top of the two loops are not synchronised
    shutdownSeen,
    \* the consul agent: its catalog and its index
    dir, dirIndex,
    \* control: the caller's thread, the goroutine of UpdateTTL, the goroutine
    \* of MonitorMemberStatusChanges
    pcF, pcK, pcW,
    \* the err of Agent().Services() in the goroutine of UpdateTTL, until
    \* err = p.registerService() overwrites it
    servicesErr,
    \* the event handed to the event stream by the publish in progress
    lastEvent,
    \* what the subscribers observe: the watch goroutine has published an
    \* event since p.shutdown was set
    publishedAfterShutdown,
    \* what the caller observes: the return of the call that just returned,
    \* the result of the last Shutdown, whether Shutdown called deregister
    ret, lastLeave, leaveDeregIssued

provider == <<deregistered, shutdown, id, knownKinds, index, statusValue,
              clusterError, updateTTLWaitGroup>>
agent == <<dir, dirIndex>>
observed == <<ret, lastLeave, leaveDeregIssued>>
vars == <<provider, shutdownSeen, agent, pcF, pcK, pcW, servicesErr, lastEvent,
          publishedAfterShutdown, observed>>

NoEvent == [resp |-> <<>>, topology |-> <<>>, published |-> FALSE]
NoReturn == [op |-> "none"]

Init ==
    /\ deregistered = FALSE
    /\ shutdown = FALSE
    /\ id = <<>>
    /\ knownKinds = <<>>
    /\ index = 0
    /\ statusValue = Nil
    /\ clusterError = NoError
    /\ updateTTLWaitGroup = 0
    /\ shutdownSeen = FALSE
    /\ dir = [self |-> NoEntry, peer |-> NoEntry]
    /\ dirIndex = 0
    /\ pcF = "idle"
    /\ pcK = "none"
    /\ pcW = "none"
    /\ servicesErr = NoError
    /\ lastEvent = NoEvent
    /\ publishedAfterShutdown = FALSE
    /\ ret = NoReturn
    /\ lastLeave = "none"
    /\ leaveDeregIssued = FALSE

\* A write to the agent's catalog: the index moves when the catalog changes.
CanWrite(d) == d = dir \/ dirIndex < MaxIndex
Write(d) ==
    /\ dir' = d
    /\ dirIndex' = IF d = dir THEN dirIndex ELSE dirIndex + 1

(***************************************************************************)
(* notifyStatuses                                                          *)
(***************************************************************************)
\* api.HealthChecks.AggregatedStatus: the worst status of the checks
AggregatedStatus(checks) ==
    IF \E i \in 1..Len(checks) : checks[i] = HealthCritical THEN HealthCritical
    ELSE IF \E i \in 1..Len(checks) : checks[i] = HealthWarning THEN HealthWarning
    ELSE HealthPassing

\* MemberStatus without the test len(v.Checks) > 0
MemberStatusNoLenTest(name, v) ==
    [MemberID |-> MemberKey(name, v.Address, v.Port),
     Host |-> v.Address,
     Port |-> v.Port,
     Kinds |-> v.Tags,
     Alive |-> AggregatedStatus(v.Checks) = HealthPassing,
     StatusValue |-> Deserialize(v.StatusValue)]

\* ms := &cluster.MemberStatus{...}
MemberStatus(name, v) ==
    [MemberID |-> MemberKey(name, v.Address, v.Port),
     Host |-> v.Address,
     Port |-> v.Port,
     Kinds |-> v.Tags,
     Alive |-> Len(v.Checks) > 0 /\ AggregatedStatus(v.Checks) = HealthPassing,
     StatusValue |-> Deserialize(v.StatusValue)]

\* TopologyEvent of the passing instances only
TopologyEventPassingOnly(name, statuses) ==
    LET passing == SelectSeq(statuses, LAMBDA v : MemberStatus(name, v).Alive)
    IN  [i \in 1..Len(passing) |-> MemberStatus(name, passing[i])]

\* res := make(cluster.TopologyEvent, len(statuses)); res[i] = ms
TopologyEvent(name, statuses) ==
    [i \in 1..Len(statuses) |-> MemberStatus(name, statuses[i])]

\* if memberID == p.id { p.knownKinds = v.Service.Tags }, for each v in order
RefreshedKinds(name, pid, kinds, statuses) ==
    LET own == { i \in 1..Len(statuses) :
                   MemberKey(name, statuses[i].Address, statuses[i].Port) = pid }
    IN  IF own = {} THEN kinds
        ELSE statuses[CHOOSE i \in own : \A j \in own : j <= i].Tags

\* notifyStatuses that takes the index of a failed query
notifyStatusesIndexOnError(ok) ==
    IF ok
    THEN LET statuses == HealthService(dir, ClusterName)
         IN  /\ index' = dirIndex
             /\ knownKinds' = RefreshedKinds(ClusterName, id, knownKinds, statuses)
             /\ lastEvent' = [resp |-> statuses,
                              topology |-> TopologyEvent(ClusterName, statuses),
                              published |-> TRUE]
    ELSE /\ index' = dirIndex
         /\ UNCHANGED <<knownKinds, lastEvent>>

\* the whole of notifyStatuses; ok is the outcome of Health().Service
notifyStatuses(ok) ==
    IF ok
    THEN LET statuses == HealthService(dir, ClusterName)
         IN  /\ index' = dirIndex
             /\ knownKinds' = RefreshedKinds(ClusterName, id, knownKinds, statuses)
             /\ lastEvent' = [resp |-> statuses,
                              topology |-> TopologyEvent(ClusterName, statuses),
                              published |-> TRUE]
    ELSE UNCHANGED <<index, knownKinds, lastEvent>>

(***************************************************************************)
(* registerService, DeregisterMember, blockingUpdateTTL                    *)
(***************************************************************************)
Registration(pid, kinds, sv) ==
    [ID |-> pid, Name |-> ClusterName, Tags |-> kinds, Address |-> Address,
     Port |-> Port, StatusValue |-> Serialize(sv)]

registerService(pid, kinds, sv, ok) ==
    IF ok
    THEN /\ CanWrite(ServiceRegister(dir, Registration(pid, kinds, sv)))
         /\ Write(ServiceRegister(dir, Registration(pid, kinds, sv)))
    ELSE UNCHANGED agent

\* DeregisterMember: p.deregistered is set only when the call succeeded
DeregisterMember(ok) ==
    IF ok
    THEN /\ CanWrite(ServiceDeregister(dir, id))
         /\ Write(ServiceDeregister(dir, id))
         /\ deregistered' = TRUE
    ELSE UNCHANGED <<agent, deregistered>>

\* blockingUpdateTTL: the call succeeds only when the check exists
blockingUpdateTTL(ok) ==
    IF ok
    THEN /\ HasCheck(dir, id)
         /\ CanWrite(AgentUpdateTTL(dir, id))
         /\ Write(AgentUpdateTTL(dir, id))
         /\ clusterError' = NoError
    ELSE /\ UNCHANGED agent
         /\ clusterError' = DirectoryError

\* the caller takes the return value of the call
Return ==
    /\ pcF = "returned"
    /\ pcF' = "idle"
    /\ ret' = NoReturn
    /\ UNCHANGED <<provider, shutdownSeen, agent, pcK, pcW, lastEvent,
                   lastLeave, leaveDeregIssued, servicesErr,
                   publishedAfterShutdown>>

\* RegisterMember returned nil: the goroutine of UpdateTTL exists
Joined == pcK # "none"

(***************************************************************************)
(* RegisterMember, in its four steps                                       *)
(***************************************************************************)
\* RegisterMember with p.UpdateTTL() right after registerService
RegisterMemberEarlyStart(kinds, sv, ok) ==
    /\ pcF = "idle"
    /\ ~Joined
    /\ id' = ProviderId(ClusterName, Address, Port)
    /\ knownKinds' = kinds
    /\ statusValue' = sv
    /\ registerService(id', kinds, sv, ok)
    /\ IF ok
       THEN /\ pcF' = "join_ttl"
            /\ pcK' = "spawned"
            /\ UNCHANGED ret
       ELSE /\ pcF' = "returned"
            /\ UNCHANGED pcK
            /\ ret' = [op |-> "RegisterMember", result |-> DirectoryError,
                       from |-> "registerService",
                       left |-> dir'.self # NoEntry /\ dir'.self # dir.self]
    /\ UNCHANGED <<deregistered, shutdown, index, clusterError, updateTTLWaitGroup,
                   shutdownSeen, pcW, lastEvent, lastLeave, leaveDeregIssued,
                   servicesErr, publishedAfterShutdown>>

\* the fields are set and registerService is called
RegisterMember(kinds, sv, ok) ==
    /\ pcF = "idle"
    /\ ~Joined
    /\ id' = ProviderId(ClusterName, Address, Port)
    /\ knownKinds' = kinds
    /\ statusValue' = sv
    /\ registerService(id', kinds, sv, ok)
    /\ IF ok
       THEN /\ pcF' = "join_ttl"
            /\ UNCHANGED ret
       ELSE /\ pcF' = "returned"
            /\ ret' = [op |-> "RegisterMember", result |-> DirectoryError,
                       from |-> "registerService",
                       left |-> dir'.self # NoEntry /\ dir'.self # dir.self]
    /\ UNCHANGED <<deregistered, shutdown, index, clusterError,
                   updateTTLWaitGroup, shutdownSeen, pcK, pcW, lastEvent,
                   lastLeave, leaveDeregIssued, servicesErr,
                   publishedAfterShutdown>>

\* RegisterMemberForceTTL with the goroutine started on the error path too,
\* as a deferred p.UpdateTTL() would
RegisterMemberForceTTLDeferred(ok) ==
    /\ pcF = "join_ttl"
    /\ blockingUpdateTTL(ok)
    /\ IF ok
       THEN /\ pcF' = "join_status"
            /\ UNCHANGED <<ret, pcK>>
       ELSE /\ pcF' = "returned"
            /\ pcK' = "spawned"
            /\ ret' = [op |-> "RegisterMember", result |-> DirectoryError,
                       from |-> "blockingUpdateTTL", left |-> HasCheck(dir, id)]
    /\ UNCHANGED <<deregistered, shutdown, id, knownKinds, index, statusValue,
                   updateTTLWaitGroup, shutdownSeen, pcW, lastEvent, lastLeave,
                   leaveDeregIssued, servicesErr, publishedAfterShutdown>>

\* err = blockingUpdateTTLFunc(p); if err != nil { return err }
\* left: the entry written by registerService is still in the catalog
RegisterMemberForceTTL(ok) ==
    /\ pcF = "join_ttl"
    /\ blockingUpdateTTL(ok)
    /\ IF ok
       THEN /\ pcF' = "join_status"
            /\ UNCHANGED ret
       ELSE /\ pcF' = "returned"
            /\ ret' = [op |-> "RegisterMember", result |-> DirectoryError,
                       from |-> "blockingUpdateTTL", left |-> HasCheck(dir, id)]
    /\ UNCHANGED <<deregistered, shutdown, id, knownKinds, index, statusValue,
                   updateTTLWaitGroup, shutdownSeen, pcK, pcW, lastEvent,
                   lastLeave, leaveDeregIssued, servicesErr,
                   publishedAfterShutdown>>

\* p.blockingStatusChange()
RegisterMemberForceStatus(ok) ==
    /\ pcF = "join_status"
    /\ notifyStatuses(ok)
    /\ pcF' = "join_start"
    /\ UNCHANGED <<deregistered, shutdown, id, statusValue, clusterError,
                   updateTTLWaitGroup, shutdownSeen, agent, pcK, pcW, observed,
                   servicesErr, publishedAfterShutdown>>

\* p.UpdateTTL() starts the goroutine; return nil.  The return carries what
\* the event stream got during the call.
RegisterMemberStart ==
    /\ pcF = "join_start"
    /\ pcK' = "spawned"
    /\ pcF' = "returned"
    /\ ret' = [op |-> "RegisterMember", result |-> NoError, from |-> "end",
               left |-> HasCheck(dir, id), event |-> lastEvent]
    /\ lastEvent' = NoEvent
    /\ UNCHANGED <<provider, shutdownSeen, agent, pcW, lastLeave,
                   leaveDeregIssued, servicesErr, publishedAfterShutdown>>

(***************************************************************************)
(* MonitorMemberStatusChanges: starts the watch goroutine                  *)
(***************************************************************************)
MonitorMemberStatusChanges ==
    /\ pcF = "idle"
    /\ Joined
    /\ pcW = "none"
    /\ pcW' = "check"
    /\ UNCHANGED <<provider, shutdownSeen, agent, pcF, pcK, lastEvent, observed,
                   servicesErr, publishedAfterShutdown>>

(***************************************************************************)
(* Shutdown, in its three steps, and DeregisterMember called by the user   *)
(***************************************************************************)
\* AlreadyShutdown without the early return
NeverAlreadyShutdown(flag) == FALSE

\* if p.shutdown { return nil }
AlreadyShutdown(flag) == flag

\* return err: with the directory calls the call made, whether it changed
\* p.shutdown or p.deregistered, and the result of the Shutdown before it
LeaveReturn(err, n, changed) ==
    /\ ret' = [op |-> "Shutdown", result |-> err, dirCalls |-> n,
               changed |-> changed, before |-> lastLeave]
    /\ lastLeave' = err
    /\ pcF' = "returned"

Shutdown ==
    /\ pcF = "idle"
    /\ Joined
    /\ IF AlreadyShutdown(shutdown)
       THEN /\ UNCHANGED shutdown
            /\ LeaveReturn(NoError, 0, FALSE)
       ELSE /\ shutdown' = TRUE
            /\ pcF' = "leave_wait"
            /\ ret' = [op |-> "Shutdown running", changed |-> ~shutdown]
            /\ UNCHANGED lastLeave
    /\ UNCHANGED <<deregistered, id, knownKinds, index, statusValue,
                   clusterError, updateTTLWaitGroup, shutdownSeen, agent, pcK,
                   pcW, lastEvent, leaveDeregIssued, servicesErr,
                   publishedAfterShutdown>>

\* p.updateTTLWaitGroup.Wait() returns when the counter is zero
ShutdownWait ==
    /\ pcF = "leave_wait"
    /\ updateTTLWaitGroup = 0
    /\ IF ~deregistered
       THEN /\ pcF' = "leave_dereg"
            /\ UNCHANGED <<ret, lastLeave>>
       ELSE LeaveReturn(NoError, 0, ret.changed)
    /\ UNCHANGED <<provider, shutdownSeen, agent, pcK, pcW, lastEvent,
                   leaveDeregIssued, servicesErr, publishedAfterShutdown>>

ShutdownDeregister(ok) ==
    /\ pcF = "leave_dereg"
    /\ DeregisterMember(ok)
    /\ leaveDeregIssued' = TRUE
    /\ LeaveReturn(IF ok THEN NoError ELSE DirectoryError, 1, ret.changed \/ ok)
    /\ UNCHANGED <<shutdown, id, knownKinds, index, statusValue, clusterError,
                   updateTTLWaitGroup, shutdownSeen, pcK, pcW, lastEvent,
                   servicesErr, publishedAfterShutdown>>

UserDeregisterMember(ok) ==
    /\ pcF = "idle"
    /\ Joined
    /\ DeregisterMember(ok)
    /\ pcF' = "returned"
    /\ ret' = [op |-> "DeregisterMember",
               result |-> IF ok THEN NoError ELSE DirectoryError]
    /\ UNCHANGED <<shutdown, id, knownKinds, index, statusValue, clusterError,
                   updateTTLWaitGroup, shutdownSeen, pcK, pcW, lastEvent,
                   lastLeave, leaveDeregIssued, servicesErr,
                   publishedAfterShutdown>>

(***************************************************************************)
(* UpdateMemberStatusValue                                                 *)
(***************************************************************************)
\* UpdateOutcome without the shutdown check
UpdateOutcomeNoShutdownCheck(v, flag) ==
    IF v = Nil THEN "return nil" ELSE "register"

\* UpdateOutcome with the shutdown check before the nil check
UpdateOutcomeShutdownFirst(v, flag) ==
    IF flag THEN "return shutting down"
    ELSE IF v = Nil THEN "return nil"
    ELSE "register"

\* what the method does after p.statusValue = statusValue
UpdateOutcome(v, flag) ==
    IF v = Nil THEN "return nil"
    ELSE IF flag THEN "return shutting down"
    ELSE "register"

UpdateMemberStatusValue(v, ok) ==
    /\ pcF = "idle"
    /\ Joined
    /\ statusValue' = v
    /\ pcF' = "returned"
    /\ IF UpdateOutcome(v, shutdown) = "register"
       THEN /\ registerService(id, knownKinds, v, ok)
            /\ ret' = [op |-> "UpdateMemberStatusValue", arg |-> v,
                       shutdown |-> shutdown,
                       result |-> IF ok THEN NoError ELSE DirectoryError,
                       dirCalls |-> 1]
       ELSE /\ ok
            /\ UNCHANGED agent
            /\ ret' = [op |-> "UpdateMemberStatusValue", arg |-> v,
                       shutdown |-> shutdown,
                       result |-> IF UpdateOutcome(v, shutdown) = "return nil"
                                  THEN NoError
                                  ELSE ProviderShuttingDownError,
                       dirCalls |-> 0]
    /\ UNCHANGED <<deregistered, shutdown, id, knownKinds, index, clusterError,
                   updateTTLWaitGroup, shutdownSeen, pcK, pcW, lastEvent,
                   lastLeave, leaveDeregIssued, servicesErr,
                   publishedAfterShutdown>>

(***************************************************************************)
(* The goroutine of UpdateTTL                                              *)
(***************************************************************************)
\* p.updateTTLWaitGroup.Add(1), inside the goroutine
UpdateTTLAdd ==
    /\ pcK = "spawned"
    /\ updateTTLWaitGroup' = updateTTLWaitGroup + 1
    /\ pcK' = "check"
    /\ UNCHANGED <<deregistered, shutdown, id, knownKinds, index, statusValue,
                   clusterError, shutdownSeen, agent, pcF, pcW, lastEvent,
                   observed, servicesErr, publishedAfterShutdown>>

\* UpdateTTLCheck without the deferred Done()
UpdateTTLCheckNoDone ==
    /\ pcK = "check"
    /\ pcK' = IF shutdownSeen THEN "done" ELSE "renew"
    /\ UNCHANGED <<provider, shutdownSeen, agent, pcF, pcW, lastEvent, observed,
                   servicesErr, publishedAfterShutdown>>

\* for !p.shutdown; leaving the loop runs the deferred Done()
UpdateTTLCheck ==
    /\ pcK = "check"
    /\ IF shutdownSeen
       THEN /\ updateTTLWaitGroup' = updateTTLWaitGroup - 1
            /\ pcK' = "done"
       ELSE /\ pcK' = "renew"
            /\ UNCHANGED updateTTLWaitGroup
    /\ UNCHANGED <<deregistered, shutdown, id, knownKinds, index, statusValue,
                   clusterError, shutdownSeen, agent, pcF, pcW, lastEvent,
                   observed, servicesErr, publishedAfterShutdown>>

\* the four time.Sleep(p.refreshTTL) of the loop: after a renewal (line 128),
\* with the id found in the list (138), after a failed register (146), after
\* a register (151)
Sleeping == {"sleep", "sleep_listed", "sleep_failed", "sleep_registered"}

\* err := blockingUpdateTTLFunc(p)
UpdateTTLRenew(ok) ==
    /\ pcK = "renew"
    /\ blockingUpdateTTL(ok)
    /\ pcK' = IF ok THEN "sleep" ELSE "list"
    /\ UNCHANGED <<deregistered, shutdown, id, knownKinds, index, statusValue,
                   updateTTLWaitGroup, shutdownSeen, pcF, pcW, lastEvent,
                   observed, servicesErr, publishedAfterShutdown>>

\* UpdateTTLList without the continue OUTER of the id found
UpdateTTLListNoContinue(ok) ==
    /\ pcK = "list"
    /\ servicesErr' = IF ok THEN NoError ELSE DirectoryError
    /\ pcK' = "reregister"
    /\ UNCHANGED <<provider, shutdownSeen, agent, pcF, pcW, lastEvent, observed,
                   publishedAfterShutdown>>

\* services, err := Agent().Services(): on an error services is empty and
\* err is not looked at
UpdateTTLList(ok) ==
    /\ pcK = "list"
    /\ servicesErr' = IF ok THEN NoError ELSE DirectoryError
    /\ pcK' = IF ok /\ id \in AgentServices(dir) THEN "sleep_listed"
              ELSE "reregister"
    /\ UNCHANGED <<provider, shutdownSeen, agent, pcF, pcW, lastEvent, observed,
                   publishedAfterShutdown>>

\* UpdateTTLReregister that leaves the loop when the register call fails
UpdateTTLReregisterOnce(ok) ==
    /\ pcK = "reregister"
    /\ registerService(id, knownKinds, statusValue, ok)
    /\ servicesErr' = NoError
    /\ IF ok
       THEN pcK' = "sleep_registered" /\ UNCHANGED updateTTLWaitGroup
       ELSE pcK' = "done" /\ updateTTLWaitGroup' = updateTTLWaitGroup - 1
    /\ UNCHANGED <<deregistered, shutdown, id, knownKinds, index, statusValue,
                   clusterError, shutdownSeen, pcF, pcW, lastEvent, observed,
                   publishedAfterShutdown>>

\* err = p.registerService()
UpdateTTLReregister(ok) ==
    /\ pcK = "reregister"
    /\ registerService(id, knownKinds, statusValue, ok)
    /\ servicesErr' = NoError
    /\ pcK' = IF ok THEN "sleep_registered" ELSE "sleep_failed"
    /\ UNCHANGED <<provider, shutdownSeen, pcF, pcW, lastEvent, observed,
                   publishedAfterShutdown>>

\* time.Sleep(p.refreshTTL)
UpdateTTLSleep ==
    /\ pcK \in Sleeping
    /\ pcK' = "check"
    /\ UNCHANGED <<provider, shutdownSeen, agent, pcF, pcW, lastEvent, observed,
                   servicesErr, publishedAfterShutdown>>

(***************************************************************************)
(* The goroutine of MonitorMemberStatusChanges                             *)
(***************************************************************************)
\* for !p.shutdown, reached the first time ("check"), after a publish
\* ("check") or after the return of line 209 ("retry")
MonitorCheck ==
    /\ pcW \in {"check", "retry"}
    /\ pcW' = IF shutdownSeen THEN "done" ELSE "query"
    /\ UNCHANGED <<provider, shutdownSeen, agent, pcF, pcK, lastEvent, observed,
                   servicesErr, publishedAfterShutdown>>

\* p.notifyStatuses(): the blocking query returns, the event is published
MonitorNotify(ok) ==
    /\ pcW = "query"
    /\ notifyStatuses(ok)
    /\ pcW' = IF ok THEN "published" ELSE "retry"
    /\ publishedAfterShutdown' = (publishedAfterShutdown \/ (ok /\ shutdown))
    /\ UNCHANGED <<deregistered, shutdown, id, statusValue, clusterError,
                   updateTTLWaitGroup, shutdownSeen, agent, pcF, pcK, observed,
                   servicesErr>>

\* Publish returned: the subscribers have the event
MonitorPublished ==
    /\ pcW = "published"
    /\ pcW' = "check"
    /\ lastEvent' = NoEvent
    /\ UNCHANGED <<provider, shutdownSeen, agent, pcF, pcK, observed,
                   servicesErr, publishedAfterShutdown>>

\* the write p.shutdown = true becomes visible to the goroutines
ShutdownVisible ==
    /\ shutdownSeen # shutdown
    /\ shutdownSeen' = shutdown
    /\ UNCHANGED <<provider, agent, pcF, pcK, pcW, lastEvent, observed,
                   servicesErr, publishedAfterShutdown>>

(***************************************************************************)
(* What happens at the consul agent without the provider                   *)
(***************************************************************************)
\* the entry is removed: after the critical grace period, or by an operator
Evict ==
    /\ dir.self # NoEntry
    /\ CanWrite([dir EXCEPT !.self = NoEntry])
    /\ Write([dir EXCEPT !.self = NoEntry])
    /\ UNCHANGED <<provider, shutdownSeen, pcF, pcK, pcW, lastEvent, observed,
                   servicesErr, publishedAfterShutdown>>

\* the tags of the entry are changed at the agent
Retag(kinds) ==
    /\ dir.self # NoEntry
    /\ dir.self.Tags # kinds
    /\ CanWrite([dir EXCEPT !.self.Tags = kinds])
    /\ Write([dir EXCEPT !.self.Tags = kinds])
    /\ UNCHANGED <<provider, shutdownSeen, pcF, pcK, pcW, lastEvent, observed,
                   servicesErr, publishedAfterShutdown>>

\* the peer joins, leaves or changes its checks
PeerChange(e) ==
    /\ dir.peer # e
    /\ CanWrite([dir EXCEPT !.peer = e])
    /\ Write([dir EXCEPT !.peer = e])
    /\ UNCHANGED <<provider, shutdownSeen, pcF, pcK, pcW, lastEvent, observed,
                   servicesErr, publishedAfterShutdown>>

Next ==
    \/ \E kinds \in KindSets, sv \in StatusValues, ok \in BOOLEAN :
          RegisterMember(kinds, sv, ok)
    \/ \E ok \in BOOLEAN : RegisterMemberForceTTL(ok)
    \/ \E ok \in BOOLEAN : RegisterMemberForceStatus(ok)
    \/ RegisterMemberStart
    \/ MonitorMemberStatusChanges
    \/ Shutdown
    \/ ShutdownWait
    \/ \E ok \in BOOLEAN : ShutdownDeregister(ok)
    \/ \E ok \in BOOLEAN : UserDeregisterMember(ok)
    \/ \E v \in StatusValues, ok \in BOOLEAN : UpdateMemberStatusValue(v, ok)
    \/ Return
    \/ UpdateTTLAdd
    \/ UpdateTTLCheck
    \/ \E ok \in BOOLEAN : UpdateTTLRenew(ok)
    \/ \E ok \in BOOLEAN : UpdateTTLList(ok)
    \/ \E ok \in BOOLEAN : UpdateTTLReregister(ok)
    \/ UpdateTTLSleep
    \/ MonitorCheck
    \/ \E ok \in BOOLEAN : MonitorNotify(ok)
    \/ MonitorPublished
    \/ ShutdownVisible
    \/ Evict
    \/ \E kinds \in KindSets : Retag(kinds)
    \/ \E e \in {NoEntry} \cup { PeerEntryWith(c) : c \in PeerChecks } : PeerChange(e)

Spec == Init /\ [][Next]_vars

(***************************************************************************)
(* Scheduling.  The Go scheduler runs every runnable goroutine, a sleep    *)
(* ends, a consul call returns (the blocking query after its wait time at  *)
(* the latest), and the write of p.shutdown reaches the goroutines.        *)
(***************************************************************************)
\* a step of the goroutine of UpdateTTL
UpdateTTLStep ==
    \/ UpdateTTLAdd
    \/ UpdateTTLCheck
    \/ \E ok \in BOOLEAN : UpdateTTLRenew(ok)
    \/ \E ok \in BOOLEAN : UpdateTTLList(ok)
    \/ \E ok \in BOOLEAN : UpdateTTLReregister(ok)
    \/ UpdateTTLSleep

\* a step of the goroutine of MonitorMemberStatusChanges
MonitorStep ==
    \/ MonitorCheck
    \/ \E ok \in BOOLEAN : MonitorNotify(ok)
    \/ MonitorPublished

\* a step of a Shutdown call that is running
ShutdownStep ==
    \/ ShutdownWait
    \/ \E ok \in BOOLEAN : ShutdownDeregister(ok)

\* Next with the index of the agent capped at MaxLiveIndex
LiveNext == Next /\ dirIndex' <= MaxLiveIndex

FairSpec ==
    /\ Init /\ [][LiveNext]_vars
    /\ WF_vars(UpdateTTLStep)
    /\ WF_vars(MonitorStep)
    /\ WF_vars(ShutdownStep)
    /\ WF_vars(ShutdownVisible)

(***************************************************************************)
(* The claims.                                                             *)
(***************************************************************************)
\* whether a query response lists this instance (its address and port)
ListsSelf(statuses) ==
    \E i \in 1..Len(statuses) :
        statuses[i].Address = Address /\ statuses[i].Port = Port

\* the goroutine of UpdateTTL issues a TTL renewal call in this step
KeeperRenewCall == pcK = "renew" /\ pcK' # "renew"
\* the goroutine of UpdateTTL issues a register call in this step
KeeperRegisterCall == pcK = "reregister" /\ pcK' # "reregister"

\* C1: once Shutdown has issued its deregistration call, the goroutine of
\* UpdateTTL issues no TTL renewal call and no register call.
C1_NoKeeperCallAfterLeaveDeregister ==
    [][leaveDeregIssued => ~(KeeperRenewCall \/ KeeperRegisterCall)]_vars

\* C2: the deregistration call of Shutdown is issued only after the goroutine
\* of UpdateTTL has terminated.
C2_LeaveDeregisterAfterKeeperStopped ==
    leaveDeregIssued => pcK = "done"

\* C3: when a successful health query lists this instance (its address and
\* port), the cached kinds are the kinds of the directory's entry.
C3_KindsRefreshedFromDirectory ==
    lastEvent.published =>
        \A i \in 1..Len(lastEvent.resp) :
            (lastEvent.resp[i].Address = Address /\ lastEvent.resp[i].Port = Port)
                => knownKinds = lastEvent.resp[i].Tags

\* C4: when RegisterMember returns nil, an event has been published during
\* the call and it lists this instance.
C4_JoinPublishedSelf ==
    (ret.op = "RegisterMember" /\ ret.result = NoError)
        => (ret.event.published /\ ListsSelf(ret.event.resp))

\* C5 as claimed: when RegisterMember returns an error, no goroutine has been
\* started and no entry of this instance is left in the catalog by the call.
C5_FailedJoinLeavesNothing ==
    (ret.op = "RegisterMember" /\ ret.result # NoError)
        => (pcK = "none" /\ ~ret.left)

\* C5 as amended: when RegisterMember returns an error, no goroutine has been
\* started; when the error is that of registerService, the call leaves no
\* entry of this instance in the catalog.
C5_FailedJoinStartsNothing ==
    (ret.op = "RegisterMember" /\ ret.result # NoError)
        => (pcK = "none" /\ (ret.from = "registerService" => ~ret.left))

\* C5 witness: RegisterMember returned the error of the forced renewal and
\* the entry it registered is still in the catalog.
C5_Witness ==
    /\ ret.op = "RegisterMember"
    /\ ret.result # NoError
    /\ ret.from = "blockingUpdateTTL"
    /\ ret.left

\* C6 as claimed: of two successive Shutdown calls, the second makes no
\* directory call and changes no state, and both return nil.
C6_LeaveTwiceBothSucceed ==
    (ret.op = "Shutdown" /\ ret.before # "none")
        => /\ ret.dirCalls = 0
           /\ ~ret.changed
           /\ ret.result = NoError
           /\ ret.before = NoError

\* C6 as amended: of two successive Shutdown calls, the second makes no
\* directory call, changes no state and returns nil; a Shutdown call returns
\* an error only when it made the deregistration call.
C6_SecondLeaveNoOp ==
    /\ (ret.op = "Shutdown" /\ ret.before # "none")
          => (ret.dirCalls = 0 /\ ~ret.changed /\ ret.result = NoError)
    /\ (ret.op = "Shutdown" /\ ret.result # NoError) => ret.dirCalls = 1

\* C6 witness: a Shutdown call returned after an earlier one whose
\* deregistration had failed.
C6_Witness ==
    ret.op = "Shutdown" /\ ret.before = DirectoryError

\* C7: after a successful DeregisterMember by the user (p.deregistered set,
\* Shutdown not called), the goroutine of UpdateTTL issues no register call.
C7_NoReregisterAfterExplicitDeregister ==
    [][(deregistered /\ ~shutdown) => ~KeeperRegisterCall]_vars

\* C8: UpdateMemberStatusValue(v) with v non-nil, called after Shutdown has
\* been called, returns ProviderShuttingDownError and makes no directory call.
C8_UpdateAfterLeaveRejected ==
    (ret.op = "UpdateMemberStatusValue" /\ ret.arg # Nil /\ lastLeave # "none")
        => (ret.result = ProviderShuttingDownError /\ ret.dirCalls = 0)

\* C8 witness: a non-nil status was submitted after Shutdown had returned.
C8_Witness ==
    ret.op = "UpdateMemberStatusValue" /\ ret.arg # Nil /\ lastLeave # "none"

\* C9: UpdateMemberStatusValue(nil) after RegisterMember makes no directory
\* call and returns nil, shutting down or not.
C9_UpdateNilNoCall ==
    (ret.op = "UpdateMemberStatusValue" /\ ret.arg = Nil)
        => (ret.result = NoError /\ ret.dirCalls = 0)

\* C9 witness: a nil status was submitted while shutting down.
C9_Witness ==
    ret.op = "UpdateMemberStatusValue" /\ ret.arg = Nil /\ ret.shutdown

\* C10: a published event has exactly one member per instance of the query
\* response it was built from, passing or not, in response order.
C10_SnapshotExhaustive ==
    lastEvent.published =>
        /\ Len(lastEvent.topology) = Len(lastEvent.resp)
        /\ \A i \in 1..Len(lastEvent.resp) :
              /\ lastEvent.topology[i].Host = lastEvent.resp[i].Address
              /\ lastEvent.topology[i].Port = lastEvent.resp[i].Port
              /\ lastEvent.topology[i].Kinds = lastEvent.resp[i].Tags
              /\ lastEvent.topology[i].MemberID =
                    <<ClusterName, "/", lastEvent.resp[i].Address, ":",
                      lastEvent.resp[i].Port>>

\* C10 witness: an event was published from a response of two instances, one
\* of them not passing.
C10_Witness ==
    /\ lastEvent.published
    /\ Len(lastEvent.resp) = 2
    /\ \E i \in 1..2 : lastEvent.resp[i].Checks # <<HealthPassing>>

\* C11: every member of a published event is alive exactly when its instance
\* has at least one health check and every one of its checks is passing: not
\* alive with no check, not alive with a check that is not passing.
C11_AliveIffChecksPassing ==
    lastEvent.published =>
        \A i \in 1..Len(lastEvent.resp) :
            lastEvent.topology[i].Alive
                <=> /\ Len(lastEvent.resp[i].Checks) > 0
                    /\ \A j \in 1..Len(lastEvent.resp[i].Checks) :
                          lastEvent.resp[i].Checks[j] = HealthPassing

\* C11 witness: an event was published with an alive member and a member
\* whose instance has no check.
C11_Witness ==
    /\ lastEvent.published
    /\ \E i \in 1..Len(lastEvent.resp) :
          lastEvent.resp[i].Checks = <<>> /\ ~lastEvent.topology[i].Alive
    /\ \E i \in 1..Len(lastEvent.resp) :
          lastEvent.resp[i].Checks = <<HealthPassing>> /\ lastEvent.topology[i].Alive

\* C12: UpdateMemberStatusValue(nil) leaves the cached status p.statusValue
\* as it was, so that a later register call of the goroutine of UpdateTTL
\* submits the status last set.
C12_UpdateNilKeepsStatus ==
    [][(pcF = "idle" /\ ret'.op = "UpdateMemberStatusValue" /\ ret'.arg = Nil)
          => statusValue' = statusValue]_vars

\* C13 as claimed: in an iteration of the goroutine of UpdateTTL whose renewal
\* failed, with the id of this instance registered at the agent, the list
\* call is not followed by a register call, whatever the list call returns.
C13_NoReregisterWhileRegistered ==
    [][(pcK = "list" /\ id \in AgentServices(dir)) => pcK' # "reregister"]_vars

\* C13 as amended: in such an iteration, with the id registered at the agent,
\* a list call that succeeds is followed by the sleep and no register call; a
\* list call that fails is followed by a register call.
C13_NoReregisterWhenListed ==
    [][(pcK = "list" /\ id \in AgentServices(dir) /\ pcK' # pcK)
          => \/ pcK' = "sleep_listed" /\ servicesErr' = NoError
             \/ pcK' = "reregister" /\ servicesErr' = DirectoryError]_vars

\* C13 witness: the renewal failed, the list had the id, the goroutine sleeps
\* without a register call.
C13_Witness ==
    pcK = "sleep_listed" /\ clusterError = DirectoryError /\ HasCheck(dir, id)

\* C14: in an iteration whose renewal failed and whose list lacks the id, the
\* goroutine makes one register call and then sleeps and loops, whether the
\* register call succeeded or failed.
C14_AbsentRegistersOnceThenSleeps ==
    [][/\ (pcK = "list" /\ id \notin AgentServices(dir) /\ pcK' # pcK)
            => pcK' = "reregister"
       /\ (pcK = "reregister" /\ pcK' # pcK)
            => pcK' \in {"sleep_failed", "sleep_registered"}
       /\ (pcK \in {"sleep_failed", "sleep_registered"} /\ pcK' # pcK)
            => pcK' = "check"]_vars

\* C14 witness: the register call of an absent instance failed and the
\* goroutine sleeps.
C14_Witness ==
    pcK = "sleep_failed" /\ clusterError = DirectoryError /\ dir.self = NoEntry

\* C15: every event is published from an index strictly newer than the index
\* of the event before it; a query that returns the index it was given
\* publishes nothing.
C15_PublishOnlyNewerIndex ==
    [][(~lastEvent.published /\ lastEvent'.published) => index' > index]_vars

\* C16: when the query of the watch goroutine fails, the index stays, nothing
\* is published, no caller gets the error, and the goroutine goes on: its
\* next step is a query with the same index, or its exit once Shutdown has
\* been called.
C16_QueryErrorKeepsWatching ==
    [][/\ (pcW = "query" /\ pcW' = "retry")
            => /\ index' = index
               /\ lastEvent' = lastEvent
               /\ ret' = ret
               /\ clusterError' = clusterError
       /\ (pcW = "retry" /\ pcW' # pcW)
            => \/ pcW' = "query" /\ index' = index
               \/ pcW' = "done" /\ shutdown]_vars

\* C16 witness: a query failed while the agent's index was ahead of p.index.
C16_Witness ==
    pcW = "retry" /\ index < dirIndex /\ ~lastEvent.published

\* C17: with the scheduling of FairSpec, once Shutdown has set p.shutdown the
\* goroutine of UpdateTTL eventually terminates, a running watch goroutine
\* eventually leaves its loop, and the Shutdown call eventually returns.
C17_LeaveTerminates ==
    /\ shutdown ~> (pcK = "done")
    /\ (shutdown /\ pcW # "none") ~> (pcW = "done")
    /\ (pcF = "leave_wait") ~> (pcF = "returned" /\ ret.op = "Shutdown")

\* C17 witness: Shutdown has returned, both goroutines have terminated.
C17_Witness ==
    /\ ret.op = "Shutdown"
    /\ ret.changed
    /\ pcK = "done"
    /\ pcW = "done"

\* C18: in RegisterMember the register call, the forced renewal and the forced
\* query run in this order, each after the one before it has returned, and
\* the goroutine of UpdateTTL makes no renewal call before the forced query
\* has returned.
C18_JoinStepsInOrder ==
    [][/\ (pcF' = "join_ttl" /\ pcF' # pcF) => pcF = "idle"
       /\ (pcF' = "join_status" /\ pcF' # pcF)
            => (pcF = "join_ttl" /\ clusterError' = NoError)
       /\ (pcF' = "join_start" /\ pcF' # pcF) => pcF = "join_status"
       /\ (pcF \in {"join_ttl", "join_status", "join_start"})
            => (pcK = "none" /\ ~KeeperRenewCall)]_vars

\* C18 witness: the forced query has returned and published, the goroutine of
\* UpdateTTL is not started yet.
C18_Witness ==
    pcF = "join_start" /\ lastEvent.published /\ pcK = "none"

\* C19: whenever Shutdown returns nil, p.deregistered is true and the entry of
\* this instance is absent from the catalog.
C19_LeaveSuccessMeansDeregistered ==
    [][(pcF # "returned" /\ pcF' = "returned" /\ ret'.op = "Shutdown"
            /\ ret'.result = NoError)
          => (deregistered' /\ ~HasCheck(dir', id'))]_vars

\* C20: once p.shutdown is set, the watch goroutine publishes at most one
\* more event.
C20_AtMostOnePublishAfterShutdown ==
    [][(pcW = "query" /\ pcW' = "published" /\ shutdown)
          => ~publishedAfterShutdown]_vars

====
